---- MODULE Spec2Model ----
(***************************************************************************)
(* Collection engine of jsondbfs-mongo (src/lib/collection.js) running     *)
(* over a lockable storage backend.  Every public operation is a chain of  *)
(* callbacks (afterLockFile, afterReadFile, afterWriteFile); each callback *)
(* runs to completion, and callbacks of different operations interleave.   *)
(***************************************************************************)
EXTENDS Integers, Sequences, FiniteSets, TLC

(***************************************************************************)
(* Bounds of the model.                                                    *)
(***************************************************************************)
NumProcs == 2
MaxFaults == 1
MaxTicks == 2
MaxSets == 2
MaxNames == 3

Procs == 1..NumProcs
Ticks == 1..MaxTicks

(***************************************************************************)
(* JavaScript values.  Every value is a record [t, n]: t is the kind of    *)
(* value, n its payload.  "incNum" is the operator object {$inc: n},       *)
(* "incStr" is {$inc: 'x'} (a non-numeric increment), "object" is any      *)
(* other object without $inc ({$set: ..}, a nested mapping), "array" is a  *)
(* sequence, "uuid" is a string produced by util.generateUUID.             *)
(***************************************************************************)
Num(k) == [t |-> "number", n |-> k]
Str(k) == [t |-> "string", n |-> k]
Uuid(k) == [t |-> "uuid", n |-> k]
Null == [t |-> "null", n |-> 0]
Undefined == [t |-> "undefined", n |-> 0]
Arr == [t |-> "array", n |-> 0]
IncNum(k) == [t |-> "incNum", n |-> k]
IncStr == [t |-> "incStr", n |-> 0]
OtherOp == [t |-> "object", n |-> 0]

\* v instanceof Object
InstanceOfObject(v) == v.t \in {"array", "incNum", "incStr", "object"}

\* '$inc' in v
HasInc(v) == v.t \in {"incNum", "incStr"}

\* v['$inc']
IncValue(v) == IF v.t = "incNum" THEN Num(v.n) ELSE Str(0)

\* typeof v === 'number'
IsNumber(v) == v.t = "number"

(***************************************************************************)
(* Documents: a mapping of the field names to values; an absent field is   *)
(* Undefined.  Criteria and update specifications are ordered mappings:    *)
(* sequences of <<name, value>> in property order.                         *)
(***************************************************************************)
Fields == {"_id", "a", "b"}

Doc(id, a, b) == [f \in Fields |-> CASE f = "_id" -> id [] f = "a" -> a [] OTHER -> b]

\* An ordered mapping read as a document (a field it does not list is absent).
RECURSIVE asDocument(_, _)
asDocument(mapping, j) ==
  IF j = 0 THEN [f \in Fields |-> Undefined]
  ELSE [asDocument(mapping, j - 1) EXCEPT ![mapping[j][1]] = mapping[j][2]]

\* The criteria matcher: every listed field has the listed value; the empty
\* criteria matches every document.
matchCriteria(document, criteria) ==
  \A j \in 1..Len(criteria) : document[criteria[j][1]] = criteria[j][2]

(***************************************************************************)
(* update: the compute step.                                               *)
(***************************************************************************)
\* document[propertyName] += incValue
incrementBad(value, incValue) == Num(value.n - incValue.n)
increment(value, incValue) == Num(value.n + incValue.n)

\* document[propertyName] = updateCriteria[propertyName]
assign(document, propertyName, value) == [document EXCEPT ![propertyName] = value]

\* The property loop of the primary match loop, from property j on: the
\* document after the loop, or the error it stopped at (the properties
\* before the failing one are already applied to the document).
RECURSIVE applyProperties(_, _, _)
applyProperties(document, updateCriteria, j) ==
  IF j > Len(updateCriteria) THEN [document |-> document, error |-> "none"]
  ELSE LET propertyName == updateCriteria[j][1]
           value == updateCriteria[j][2]
       IN IF InstanceOfObject(value)
          THEN IF HasInc(value)
               THEN IF IsNumber(document[propertyName]) /\ IsNumber(IncValue(value))
                    THEN applyProperties(
                           assign(document, propertyName,
                                  increment(document[propertyName], IncValue(value))),
                           updateCriteria, j + 1)
                    ELSE [document |-> document, error |-> "TypeMismatch"]
               ELSE [document |-> document, error |-> "UnsupportedOperator"]
          ELSE applyProperties(assign(document, propertyName, value),
                               updateCriteria, j + 1)

\* The state of the primary match loop before any document is visited.
loopStart(documents) ==
  [documents |-> documents, nMatched |-> 0, nModified |-> 0,
   matchedDocuments |-> <<>>, error |-> "none"]

\* The primary match loop from document i on.  matchedDocuments holds the
\* positions of the matched documents.
RECURSIVE matchLoop(_, _, _, _, _)
matchLoop(st, criteria, updateCriteria, multi, i) ==
  IF i > Len(st.documents) THEN st
  ELSE IF matchCriteria(st.documents[i], criteria)
       THEN LET r == applyProperties(st.documents[i], updateCriteria, 1)
                docs == [st.documents EXCEPT ![i] = r.document]
            IN IF r.error # "none"
               THEN [st EXCEPT !.documents = docs, !.error = r.error]
               ELSE LET st1 == [documents |-> docs,
                                nMatched |-> st.nMatched + 1,
                                nModified |-> st.nModified + 1,
                                matchedDocuments |-> Append(st.matchedDocuments, i),
                                error |-> "none"]
                    IN IF ~multi THEN st1
                       ELSE matchLoop(st1, criteria, updateCriteria, multi, i + 1)
       ELSE matchLoop(st, criteria, updateCriteria, multi, i + 1)

\* What documents.map leaves at a position whose callback returned nothing.
UndefinedDocument == [f \in Fields |-> Undefined]

\* The callback of documents.map in the empty-criteria fallback.
RECURSIVE fallbackProperties(_, _, _)
fallbackProperties(doc, updateCriteria, j) ==
  IF j > Len(updateCriteria) THEN [document |-> doc, error |-> "none"]
  ELSE LET propertyName == updateCriteria[j][1]
           value == updateCriteria[j][2]
       IN IF InstanceOfObject(value) /\ HasInc(value)
          THEN IF IsNumber(doc[propertyName]) /\ IsNumber(IncValue(value))
               THEN fallbackProperties(
                      assign(doc, propertyName, increment(doc[propertyName], IncValue(value))),
                      updateCriteria, j + 1)
               ELSE [document |-> UndefinedDocument, error |-> "TypeMismatch"]
          ELSE fallbackProperties(assign(doc, propertyName, value), updateCriteria, j + 1)

\* The empty-criteria fallback: updatedDocuments, and whether a callback
\* rejected.
fallbackMap(documents, updateCriteria) ==
  LET r == [i \in 1..Len(documents) |-> fallbackProperties(documents[i], updateCriteria, 1)]
  IN [documents |-> [i \in 1..Len(documents) |-> r[i].document],
      error |-> IF \E i \in 1..Len(documents) : r[i].error # "none"
                THEN "TypeMismatch" ELSE "none"]

(***************************************************************************)
(* insert, insertMany, remove: the compute step.                           *)
(***************************************************************************)
\* The object insert is given, after data._id was set: a document, or an
\* array of documents (the _id is then a property of the array itself).
stored(data) == [data.items[1] EXCEPT !["_id"] = data.id]

\* documents.push(data), and _.flatten(documents) when data is an array.
pushDataBad(documents, data) ==
  IF data.isArray THEN data.items ELSE <<stored(data)>>
pushData(documents, data) ==
  IF data.isArray THEN documents \o data.items
  ELSE Append(documents, stored(data))

\* dataArr.forEach: every element gets its own _id and is pushed.
pushMany(documents, items, firstId) ==
  documents \o [i \in 1..Len(items) |-> [items[i] EXCEPT !["_id"] = Uuid(firstId + i - 1)]]

\* The documents remove keeps.
filterDocuments(documents, criteria) ==
  IF Len(criteria) = 0 THEN <<>>
  ELSE SelectSeq(documents, LAMBDA document : ~matchCriteria(document, criteria))

(***************************************************************************)
(* The calls the callers make.                                             *)
(***************************************************************************)
NoData == [isArray |-> FALSE, id |-> Undefined, items |-> <<>>]
NoOptions == [multi |-> FALSE, upsert |-> FALSE, retObj |-> FALSE]

OneDocument == [isArray |-> FALSE, id |-> Undefined,
                items |-> <<Doc(Undefined, Num(1), Num(5))>>]
TwoDocuments == <<Doc(Undefined, Num(1), Undefined), Doc(Undefined, Num(2), Str(0))>>

Update(c, u, m, us) ==
  [op |-> "update", criteria |-> c, updateCriteria |-> u,
   options |-> [multi |-> m, upsert |-> us, retObj |-> FALSE], data |-> NoData]
Remove(c) ==
  [op |-> "remove", criteria |-> c, updateCriteria |-> <<>>,
   options |-> NoOptions, data |-> NoData]
Insert(d) ==
  [op |-> "insert", criteria |-> <<>>, updateCriteria |-> <<>>,
   options |-> NoOptions, data |-> d]
InsertMany(items) ==
  [op |-> "insertMany", criteria |-> <<>>, updateCriteria |-> <<>>,
   options |-> NoOptions,
   data |-> [isArray |-> TRUE, id |-> Undefined, items |-> items]]

Empty == <<>>
AIsOne == << <<"a", Num(1)>> >>

Calls ==
  << Insert(OneDocument),
    Insert([isArray |-> TRUE, id |-> Undefined, items |-> TwoDocuments]),
    InsertMany(TwoDocuments),
    Remove(AIsOne),
    Remove(Empty),
    Update(AIsOne, << <<"b", IncNum(1)>> >>, TRUE, FALSE),
    Update(Empty, << <<"b", IncNum(-1)>> >>, FALSE, FALSE),
    Update(AIsOne, << <<"a", Num(2)>>, <<"b", IncStr>> >>, TRUE, FALSE),
    Update(Empty, << <<"b", OtherOp>> >>, TRUE, FALSE),
    Update(AIsOne, << <<"b", Arr>> >>, TRUE, FALSE),
    Update(AIsOne, << <<"b", Null>> >>, FALSE, FALSE),
    Update(AIsOne, << <<"a", Num(1)>> >>, FALSE, TRUE),
    Update(Empty, << <<"a", Num(1)>> >>, FALSE, TRUE),
    Update(AIsOne, << <<"_id", Str(9)>> >>, TRUE, FALSE) >>

NoCall == [op |-> "none", criteria |-> <<>>, updateCriteria |-> <<>>,
           options |-> NoOptions, data |-> NoData]

\* The calls an operation may be when the one before it was prev.  The
\* callbacks of the pending calls run in any order, so the order in which
\* the calls are issued decides nothing but the numbering of the
\* identifiers: the calls are taken in the order of the list.
position(c) == CHOOSE k \in 1..Len(Calls) : Calls[k] = c
CallsOf(prev) ==
  { Calls[k] : k \in { h \in 1..Len(Calls) : prev = NoCall \/ h >= position(prev) } }

\* The collection files a connection may find.
Files ==
  { <<>>,
    << Doc(Uuid(1), Num(1), Num(5)), Doc(Uuid(2), Num(1), Str(0)) >> }

(***************************************************************************)
(* State.                                                                  *)
(***************************************************************************)
VARIABLES
  driver,      \* the backend of the collection: "disk" or "memory"
  file,        \* the document sequence in the collection's file
  memoryTable, \* Memory: the contents added to the Set, in insertion order
  flusher,     \* Memory: the callback the constructor's chain waits for
  lockHolder,  \* the operations inside the exclusive section
  nextId,      \* the next identifier util.generateUUID returns
  pc,          \* per operation: the callback it waits for
  call,        \* per operation: the call as the caller made it
  fn,          \* per operation: the function whose callbacks are running
  data,        \* per operation: the object insert was given, with its _id
  documents,   \* per operation: the documents handed to set
  ret,         \* per operation: update's ret
  promise,     \* per operation: the promise returned to the caller
  faults,      \* how many backend calls have failed so far
  acquired,    \* per operation: it went through the lock without error
  sets,        \* per operation: how often it has called set
  seen,        \* per operation: the documents its update read
  inner,       \* per operation: the promise of the insert it runs
  branch,      \* per operation: the branch of update that called set
  raised,      \* per operation: the error update's compute step rejected with
  file0,       \* the document sequence before the first call
  alive,       \* the process has not been ended by an uncaught exception
  tick,        \* Memory: per tick of the interval, the callback it waits for
  buffer,      \* Memory: per tick, the content write was called with
  given,       \* Memory: the contents set was called with, in order
  got,         \* Memory: what the latest get handed its callback
  rootExists,  \* connect: the root path exists
  collections, \* connect: the collections argument
  exists,      \* connect: the collections whose file exists
  created,     \* connect: the collections a Collection object was made for
  creating,    \* connect: per collection, the callback create waits for
  called,      \* connect: the arguments of every call of the callback
  connecting   \* connect: the callback connect waits for

flushVars == <<alive, tick, buffer, given, got>>
connectVars == <<rootExists, collections, exists, created, creating, called, connecting>>

vars == <<driver, file, memoryTable, flusher, lockHolder, nextId, pc, call, fn, data,
          documents, ret, promise, faults, acquired, sets, seen, inner, branch, raised,
          file0, flushVars, connectVars>>

ZeroRet == [nMatched |-> 0, nModified |-> 0, nUpserted |-> 0]
NoPromise == [state |-> "none", error |-> "none", ret |-> ZeroRet]

\* resolve / reject: only the first settlement of a promise counts.
resolve(pr, r) ==
  IF pr.state = "pending" THEN [state |-> "resolved", error |-> "none", ret |-> r] ELSE pr
reject(pr, e) ==
  IF pr.state = "pending" THEN [state |-> "rejected", error |-> e, ret |-> ZeroRet] ELSE pr

(***************************************************************************)
(* The Disk backend behind the data handler: an exclusive section, and the *)
(* whole document sequence read and replaced at once.                      *)
(***************************************************************************)
\* lock calls back without error once nobody is inside the section.
granted(holder) == holder = {}

\* unlock, called by operation p.
unlock(holder, p) == holder \ {p}

\* get hands the callback the stored sequence (a copy of its own).
diskGet(stored_) == stored_

\* set replaces the stored sequence by the content.
diskSet(stored_, content) == content

\* get has not been called yet.
NotGot == [after |-> -1, documents |-> <<>>]

\* The flush scheduler before the constructor's read has called back.
BeforeFlush ==
  /\ alive = TRUE
  /\ tick = [t \in Ticks |-> "idle"]
  /\ buffer = [t \in Ticks |-> <<>>]
  /\ given = <<>>
  /\ got = NotGot

\* connect has not been called.
BeforeConnect ==
  /\ rootExists = TRUE
  /\ collections = <<>>
  /\ exists = {}
  /\ created = {}
  /\ creating = <<>>
  /\ called = <<>>
  /\ connecting = "none"

Init ==
  /\ BeforeFlush
  /\ BeforeConnect
  /\ driver \in {"disk", "memory"}
  /\ file \in Files
  /\ memoryTable = <<>>
  /\ flusher = IF driver = "memory" THEN "read" ELSE "none"
  /\ file0 = file
  /\ lockHolder = {}
  /\ nextId = Len(file) + 1
  /\ pc = [p \in Procs |-> "idle"]
  /\ call = [p \in Procs |-> NoCall]
  /\ fn = [p \in Procs |-> "none"]
  /\ data = [p \in Procs |-> NoData]
  /\ documents = [p \in Procs |-> <<>>]
  /\ ret = [p \in Procs |-> ZeroRet]
  /\ promise = [p \in Procs |-> NoPromise]
  /\ faults = 0
  /\ acquired = [p \in Procs |-> FALSE]
  /\ sets = [p \in Procs |-> 0]
  /\ seen = [p \in Procs |-> <<>>]
  /\ inner = [p \in Procs |-> NoPromise]
  /\ branch = [p \in Procs |-> "none"]
  /\ raised = [p \in Procs |-> "none"]

Pending == [state |-> "pending", error |-> "none", ret |-> ZeroRet]

(***************************************************************************)
(* A caller calls insert, insertMany, update or remove: the body of the    *)
(* promise executor up to the call of lock.  Operation p models the p-th   *)
(* call; a call may be made while earlier ones are still running.          *)
(***************************************************************************)
Call(p) ==
  /\ driver = "disk"
  /\ pc[p] = "idle"
  /\ \A q \in 1..(p - 1) : pc[q] # "idle"
  /\ \E c \in CallsOf(IF p = 1 THEN NoCall ELSE call[p - 1]) :
       /\ call' = [call EXCEPT ![p] = c]
       /\ fn' = [fn EXCEPT ![p] = c.op]
       /\ data' = [data EXCEPT ![p] =
                     IF c.op = "insert" THEN [c.data EXCEPT !.id = Uuid(nextId)] ELSE c.data]
       /\ nextId' = IF c.op = "insert" THEN nextId + 1 ELSE nextId
       /\ promise' = [promise EXCEPT ![p] =
                        IF c.op = "remove" /\ Len(c.criteria) = 0
                        THEN reject(Pending, "InvalidArgument") ELSE Pending]
       /\ inner' = [inner EXCEPT ![p] = IF c.op = "insert" THEN Pending ELSE NoPromise]
  /\ pc' = [pc EXCEPT ![p] = "lock"]
  /\ UNCHANGED <<file, lockHolder, documents, ret, faults, acquired, sets, seen,
                 branch, file0, driver, flushVars, connectVars, memoryTable, flusher, raised>>

\* What a promise is resolved with besides update's ret: a sequence of
\* documents, or an object that is no stored document (an update
\* specification).
Documents(items) == [kind |-> "documents", items |-> items]
Object(mapping) == [kind |-> "object", items |-> mapping]

\* options.retObj ? value : r
retObjOr(c, value, r) == IF c.options.retObj THEN value ELSE r

\* insert's promise is rejected; when insert runs for an upsert, update's
\* catch handler rejects update's promise with the same error.
RejectInsert(p, e) ==
  /\ inner' = [inner EXCEPT ![p] = reject(@, e)]
  /\ promise' = [promise EXCEPT ![p] =
                   IF inner[p].state = "pending" THEN reject(@, e) ELSE @]

\* insert's promise is resolved; when insert runs for an upsert, update's
\* then handler counts the upsert and resolves update's promise.
ResolveInsert(p) ==
  /\ inner' = [inner EXCEPT ![p] = resolve(@, ZeroRet)]
  /\ ret' = [ret EXCEPT ![p] =
               IF inner[p].state = "pending" /\ call[p].op = "update"
               THEN [@ EXCEPT !.nUpserted = 1] ELSE @]
  /\ promise' = [promise EXCEPT ![p] =
                   IF inner[p].state = "pending"
                   THEN resolve(@, retObjOr(call[p], Object(call[p].updateCriteria), ret'[p]))
                   ELSE @]

(***************************************************************************)
(* afterLockFile: the backend grants the exclusive section, or reports an  *)
(* error; the callback rejects on the error and goes on to call get.       *)
(***************************************************************************)
AfterLockFile(p) ==
  /\ pc[p] = "lock"
  /\ \/ /\ granted(lockHolder)
        /\ lockHolder' = {p}
        /\ acquired' = [acquired EXCEPT ![p] = TRUE]
        /\ UNCHANGED <<promise, inner, faults>>
     \/ /\ faults < MaxFaults
        /\ faults' = faults + 1
        /\ IF fn[p] = "insert"
           THEN RejectInsert(p, "LockError")
           ELSE /\ promise' = [promise EXCEPT ![p] = reject(@, "LockError")]
                /\ UNCHANGED inner
        /\ UNCHANGED <<lockHolder, acquired>>
  /\ pc' = [pc EXCEPT ![p] = "read"]
  /\ UNCHANGED <<file, nextId, call, fn, data, documents, ret, sets, seen, branch, file0, driver, flushVars, connectVars, memoryTable, flusher, raised>>

(***************************************************************************)
(* insert                                                                  *)
(***************************************************************************)
InsertAfterReadFile(p) ==
  /\ pc[p] = "read" /\ fn[p] = "insert"
  /\ \/ /\ faults < MaxFaults
        /\ faults' = faults + 1
        /\ lockHolder' = unlock(lockHolder, p)
        /\ RejectInsert(p, "IOError")
        /\ pc' = [pc EXCEPT ![p] = "done"]
        /\ UNCHANGED <<documents, sets>>
     \/ /\ documents' = [documents EXCEPT ![p] = pushData(diskGet(file), data[p])]
        /\ sets' = [sets EXCEPT ![p] = @ + 1]
        /\ pc' = [pc EXCEPT ![p] = "write"]
        /\ UNCHANGED <<lockHolder, promise, inner, faults>>
  /\ UNCHANGED <<file, nextId, call, fn, data, ret, acquired, seen, branch, file0, driver, flushVars, connectVars, memoryTable, flusher, raised>>

InsertAfterWriteFile(p) ==
  /\ pc[p] = "write" /\ fn[p] = "insert"
  /\ lockHolder' = unlock(lockHolder, p)
  /\ \/ /\ faults < MaxFaults
        /\ faults' = faults + 1
        /\ RejectInsert(p, "IOError")
        /\ UNCHANGED <<file, ret>>
     \/ /\ file' = diskSet(file, documents[p])
        /\ ResolveInsert(p)
        /\ UNCHANGED faults
  /\ pc' = [pc EXCEPT ![p] = "done"]
  /\ UNCHANGED <<nextId, call, fn, data, documents, acquired, sets, seen, branch, file0, driver, flushVars, connectVars, memoryTable, flusher, raised>>

(***************************************************************************)
(* insertMany                                                              *)
(***************************************************************************)
InsertManyAfterReadFileBad(p) ==
  /\ pc[p] = "read" /\ fn[p] = "insertMany"
  /\ \/ /\ faults < MaxFaults
        /\ faults' = faults + 1
        /\ lockHolder' = unlock(lockHolder, p)
        /\ promise' = [promise EXCEPT ![p] = reject(@, "IOError")]
        /\ documents' = [documents EXCEPT ![p] = pushMany(<<>>, data[p].items, nextId)]
        /\ nextId' = nextId + Len(data[p].items)
        /\ sets' = [sets EXCEPT ![p] = @ + 1]
        /\ pc' = [pc EXCEPT ![p] = "write"]
     \/ /\ documents' = [documents EXCEPT ![p] = pushMany(diskGet(file), data[p].items, nextId)]
        /\ nextId' = nextId + Len(data[p].items)
        /\ sets' = [sets EXCEPT ![p] = @ + 1]
        /\ pc' = [pc EXCEPT ![p] = "write"]
        /\ UNCHANGED <<lockHolder, promise, faults>>
  /\ UNCHANGED <<file, call, fn, data, ret, acquired, seen, inner, branch, file0, driver, flushVars, connectVars, memoryTable, flusher, raised>>

InsertManyAfterReadFile(p) ==
  /\ pc[p] = "read" /\ fn[p] = "insertMany"
  /\ \/ \* get failed: unlock, reject; forEach then gives the first element
        \* its _id and throws at documents.push (documents is undefined)
        /\ faults < MaxFaults
        /\ faults' = faults + 1
        /\ lockHolder' = unlock(lockHolder, p)
        /\ promise' = [promise EXCEPT ![p] = reject(@, "IOError")]
        /\ nextId' = nextId + 1
        /\ pc' = [pc EXCEPT ![p] = "done"]
        /\ UNCHANGED <<documents, sets>>
     \/ /\ documents' = [documents EXCEPT ![p] = pushMany(diskGet(file), data[p].items, nextId)]
        /\ nextId' = nextId + Len(data[p].items)
        /\ sets' = [sets EXCEPT ![p] = @ + 1]
        /\ pc' = [pc EXCEPT ![p] = "write"]
        /\ UNCHANGED <<lockHolder, promise, faults>>
  /\ UNCHANGED <<file, call, fn, data, ret, acquired, seen, inner, branch, file0, driver, flushVars, connectVars, memoryTable, flusher, raised>>

InsertManyAfterWriteFile(p) ==
  /\ pc[p] = "write" /\ fn[p] = "insertMany"
  /\ lockHolder' = unlock(lockHolder, p)
  /\ \/ /\ faults < MaxFaults
        /\ faults' = faults + 1
        /\ promise' = [promise EXCEPT ![p] = reject(@, "IOError")]
        /\ UNCHANGED file
     \/ /\ file' = diskSet(file, documents[p])
        /\ promise' = [promise EXCEPT ![p] = resolve(@, ZeroRet)]
        /\ UNCHANGED faults
  /\ pc' = [pc EXCEPT ![p] = "done"]
  /\ UNCHANGED <<nextId, call, fn, data, documents, ret, acquired, sets, seen, inner,
                 branch, file0, driver, flushVars, connectVars, memoryTable, flusher, raised>>

(***************************************************************************)
(* update                                                                  *)
(***************************************************************************)
\* What afterReadFile does after the match loop: "rejected" (the loop has
\* rejected and returned), "primary" (set the documents), "fallback" (the
\* empty-criteria branch), "upsert" or "nothing".
branchOfBad(st, c) ==
  IF Len(st.matchedDocuments) > 0 THEN "primary"
  ELSE IF st.error # "none" THEN "rejected"
  ELSE IF Len(c.criteria) = 0 THEN "fallback"
  ELSE IF c.options.upsert THEN "upsert" ELSE "nothing"
branchOf(st, c) ==
  IF st.error # "none" THEN "rejected"
  ELSE IF Len(st.matchedDocuments) > 0 THEN "primary"
  ELSE IF Len(c.criteria) = 0 THEN "fallback"
  ELSE IF c.options.upsert THEN "upsert" ELSE "nothing"

UpdateAfterReadFile(p) ==
  /\ pc[p] = "read" /\ fn[p] = "update"
  /\ \/ /\ faults < MaxFaults
        /\ faults' = faults + 1
        /\ lockHolder' = unlock(lockHolder, p)
        /\ promise' = [promise EXCEPT ![p] = reject(@, "IOError")]
        /\ pc' = [pc EXCEPT ![p] = "done"]
        /\ UNCHANGED <<file, nextId, fn, data, documents, ret, sets, seen, inner, branch,
                       raised>>
     \/ LET c == call[p]
            st == matchLoop(loopStart(diskGet(file)), c.criteria, c.updateCriteria,
                            c.options.multi, 1)
            fb == fallbackMap(st.documents, c.updateCriteria)
            br == branchOf(st, c)
        IN /\ seen' = [seen EXCEPT ![p] = diskGet(file)]
           /\ UNCHANGED <<file, faults>>
           /\ raised' = [raised EXCEPT ![p] =
                           IF st.error # "none" THEN st.error
                           ELSE IF br = "fallback" THEN fb.error ELSE "none"]
           /\ CASE br = "rejected" ->
                   \* reject and return: neither set nor unlock is called
                   /\ promise' = [promise EXCEPT ![p] = reject(@, st.error)]
                   /\ pc' = [pc EXCEPT ![p] = "done"]
                   /\ UNCHANGED <<lockHolder, nextId, fn, data, documents, ret, sets,
                                  inner, branch>>
                [] br = "primary" ->
                   /\ documents' = [documents EXCEPT ![p] = st.documents]
                   /\ ret' = [ret EXCEPT ![p] = [nMatched |-> st.nMatched,
                                                  nModified |-> st.nModified,
                                                  nUpserted |-> 0]]
                   /\ sets' = [sets EXCEPT ![p] = @ + 1]
                   /\ branch' = [branch EXCEPT ![p] = "primary"]
                   /\ pc' = [pc EXCEPT ![p] = "write"]
                   /\ UNCHANGED <<lockHolder, nextId, fn, data, promise, inner>>
                [] br = "fallback" ->
                   /\ documents' = [documents EXCEPT ![p] = fb.documents]
                   /\ promise' = [promise EXCEPT ![p] =
                                    IF fb.error # "none" THEN reject(@, fb.error) ELSE @]
                   /\ sets' = [sets EXCEPT ![p] = @ + 1]
                   /\ branch' = [branch EXCEPT ![p] = "fallback"]
                   /\ pc' = [pc EXCEPT ![p] = "write"]
                   /\ UNCHANGED <<lockHolder, nextId, fn, data, ret, inner>>
                [] br = "upsert" ->
                   \* unlock, then insert(updateCriteria) up to its call of lock
                   /\ lockHolder' = unlock(lockHolder, p)
                   /\ data' = [data EXCEPT ![p] =
                                 [isArray |-> FALSE, id |-> Uuid(nextId),
                                  items |-> <<asDocument(c.updateCriteria,
                                                         Len(c.updateCriteria))>>]]
                   /\ nextId' = nextId + 1
                   /\ fn' = [fn EXCEPT ![p] = "insert"]
                   /\ inner' = [inner EXCEPT ![p] = Pending]
                   /\ pc' = [pc EXCEPT ![p] = "lock"]
                   /\ UNCHANGED <<promise, documents, ret, sets, branch>>
                [] OTHER ->
                   /\ lockHolder' = unlock(lockHolder, p)
                   /\ promise' = [promise EXCEPT ![p] =
                                    resolve(@, retObjOr(c, Object(c.updateCriteria), ret[p]))]
                   /\ pc' = [pc EXCEPT ![p] = "done"]
                   /\ UNCHANGED <<nextId, fn, data, inner, documents, ret, sets, branch>>
  /\ UNCHANGED <<call, acquired, file0, driver, flushVars, connectVars, memoryTable, flusher>>

\* matchedDocuments when afterWriteFile runs: the matched documents as the
\* match loop left them.
matchedDocuments(p) ==
  LET st == matchLoop(loopStart(seen[p]), call[p].criteria, call[p].updateCriteria,
                      call[p].options.multi, 1)
  IN [k \in 1..Len(st.matchedDocuments) |-> documents[p][st.matchedDocuments[k]]]

\* The then handler of updateOne / updateMany, given the promise of update:
\* options.new && !options.retObj && result.nModified > 0, on which it
\* calls findOne(criteria) / find(criteria) and resolves with what that
\* resolves with.
requery(c, pr) ==
  /\ c.op \in {"updateOne", "updateMany"}
  /\ pr.state = "resolved"
  /\ c.options.new /\ ~c.options.retObj
  /\ pr.ret.nModified > 0

UpdateAfterWriteFile(p) ==
  /\ pc[p] = "write" /\ fn[p] = "update"
  /\ lockHolder' = unlock(lockHolder, p)
  /\ \/ /\ faults < MaxFaults
        /\ faults' = faults + 1
        /\ promise' = [promise EXCEPT ![p] = reject(@, "IOError")]
        /\ pc' = [pc EXCEPT ![p] = "done"]
        /\ UNCHANGED <<file, ret, fn>>
     \/ LET r == IF branch[p] = "fallback"
                 THEN [ret[p] EXCEPT !.nMatched = Len(documents[p]),
                                     !.nModified = Len(documents[p])]
                 ELSE ret[p]
            updated == resolve(promise[p],
                               retObjOr(call[p],
                                        Documents(IF branch[p] = "fallback"
                                                  THEN documents[p]
                                                  ELSE matchedDocuments(p)),
                                        r))
        IN /\ file' = diskSet(file, documents[p])
           /\ ret' = [ret EXCEPT ![p] = r]
           /\ IF requery(call[p], updated)
              THEN \* the wrapper calls find: the promise the caller holds now
                   \* waits for find's afterReadFile
                   /\ promise' = [promise EXCEPT ![p] = Pending]
                   /\ fn' = [fn EXCEPT ![p] = "find"]
                   /\ pc' = [pc EXCEPT ![p] = "get"]
              ELSE /\ promise' = [promise EXCEPT ![p] = updated]
                   /\ pc' = [pc EXCEPT ![p] = "done"]
                   /\ UNCHANGED fn
           /\ UNCHANGED faults
  /\ UNCHANGED <<nextId, call, data, documents, acquired, sets, seen, inner,
                 branch, file0, driver, flushVars, connectVars, memoryTable, flusher, raised>>

(***************************************************************************)
(* remove                                                                  *)
(***************************************************************************)
RemoveAfterReadFile(p) ==
  /\ pc[p] = "read" /\ fn[p] = "remove"
  /\ \/ /\ faults < MaxFaults
        /\ faults' = faults + 1
        /\ lockHolder' = unlock(lockHolder, p)
        /\ promise' = [promise EXCEPT ![p] = reject(@, "IOError")]
        /\ pc' = [pc EXCEPT ![p] = "done"]
        /\ UNCHANGED <<documents, sets>>
     \/ /\ documents' = [documents EXCEPT ![p] = filterDocuments(diskGet(file), call[p].criteria)]
        /\ sets' = [sets EXCEPT ![p] = @ + 1]
        /\ pc' = [pc EXCEPT ![p] = "write"]
        /\ UNCHANGED <<lockHolder, promise, faults>>
  /\ UNCHANGED <<file, nextId, call, fn, data, ret, acquired, seen, inner, branch, file0, driver, flushVars, connectVars, memoryTable, flusher, raised>>

RemoveAfterWriteFile(p) ==
  /\ pc[p] = "write" /\ fn[p] = "remove"
  /\ lockHolder' = unlock(lockHolder, p)
  /\ \/ /\ faults < MaxFaults
        /\ faults' = faults + 1
        /\ promise' = [promise EXCEPT ![p] = reject(@, "IOError")]
        /\ UNCHANGED file
     \/ /\ file' = diskSet(file, documents[p])
        /\ promise' = [promise EXCEPT ![p] = resolve(@, ZeroRet)]
        /\ UNCHANGED faults
  /\ pc' = [pc EXCEPT ![p] = "done"]
  /\ UNCHANGED <<nextId, call, fn, data, documents, ret, acquired, sets, seen, inner,
                 branch, file0, driver, flushVars, connectVars, memoryTable, flusher, raised>>

(***************************************************************************)
(* The Memory backend.  memoryTable is a Set: set adds its argument to it  *)
(* and get hands out the Set itself.  lock, get and set call back at once, *)
(* so a call runs to its end within the promise executor, and an exception *)
(* thrown on the way rejects the promise.                                  *)
(***************************************************************************)
\* Memory.prototype.set: this.memoryTable.add(content)
memorySet(table, content) == Append(table, content)

\* What an exception no caller catches leaves of the process: it ends,
\* unless the embedding program handles uncaught exceptions.
Uncaught(a) == a \in BOOLEAN

MemoryAfterReadBad ==
  /\ flusher = "read" /\ alive
  /\ \/ /\ faults < MaxFaults
        /\ faults' = faults + 1
        /\ flusher' = "interval"
        /\ UNCHANGED <<memoryTable, alive>>
     \/ /\ memoryTable' = memorySet(memoryTable, file)
        /\ flusher' = "interval"
        /\ UNCHANGED <<faults, alive>>
  /\ UNCHANGED <<driver, connectVars, file, lockHolder, nextId, pc, call, fn, data,
                 documents, ret, promise, acquired, sets, seen, inner, branch, raised,
                 file0, tick, buffer, given, got>>

\* The constructor's afterRead: on an error it throws; otherwise the content
\* of the file is added to the Set and the interval is set.
MemoryAfterRead ==
  /\ flusher = "read" /\ alive
  /\ \/ /\ faults < MaxFaults
        /\ faults' = faults + 1
        /\ flusher' = "failed"
        /\ Uncaught(alive')
        /\ UNCHANGED memoryTable
     \/ /\ memoryTable' = memorySet(memoryTable, file)
        /\ flusher' = "interval"
        /\ UNCHANGED <<faults, alive>>
  /\ UNCHANGED <<driver, connectVars, file, lockHolder, nextId, pc, call, fn, data,
                 documents, ret, promise, acquired, sets, seen, inner, branch, raised,
                 file0, tick, buffer, given, got>>

\* A call on a Memory-backed collection.  The documents the callbacks get
\* are the Set: it has no length, so update's match loop visits nothing,
\* and it has no push, map or filter, so calling them throws a TypeError.
MemoryCall(p) ==
  /\ driver = "memory" /\ alive
  /\ pc[p] = "idle"
  /\ \A q \in 1..(p - 1) : pc[q] # "idle"
  /\ \E c \in CallsOf(IF p = 1 THEN NoCall ELSE call[p - 1]) :
       /\ call' = [call EXCEPT ![p] = c]
       /\ fn' = [fn EXCEPT ![p] = c.op]
       /\ CASE c.op \in {"insert", "insertMany"} ->
               \* data._id is set, then documents.push throws
               /\ nextId' = nextId + 1
               /\ promise' = [promise EXCEPT ![p] = reject(Pending, "TypeError")]
               /\ UNCHANGED <<memoryTable, sets>>
            [] c.op = "update" /\ Len(c.criteria) = 0 ->
               \* nothing matched, the criteria is empty: documents.map throws
               /\ promise' = [promise EXCEPT ![p] = reject(Pending, "TypeError")]
               /\ UNCHANGED <<memoryTable, sets, nextId>>
            [] c.op = "update" /\ Len(c.criteria) > 0 /\ c.options.upsert ->
               \* nothing matched: insert(updateCriteria), whose push throws
               /\ nextId' = nextId + 1
               /\ promise' = [promise EXCEPT ![p] = reject(Pending, "TypeError")]
               /\ UNCHANGED <<memoryTable, sets>>
            [] c.op = "update" /\ Len(c.criteria) > 0 /\ ~c.options.upsert ->
               /\ promise' = [promise EXCEPT ![p] = resolve(Pending, ZeroRet)]
               /\ UNCHANGED <<memoryTable, sets, nextId>>
            [] c.op = "remove" /\ Len(c.criteria) = 0 ->
               \* rejected for the missing criteria, then set([])
               /\ promise' = [promise EXCEPT ![p] = reject(Pending, "InvalidArgument")]
               /\ memoryTable' = memorySet(memoryTable, <<>>)
               /\ sets' = [sets EXCEPT ![p] = @ + 1]
               /\ UNCHANGED nextId
            [] OTHER ->
               \* remove with criteria: documents.filter throws
               /\ promise' = [promise EXCEPT ![p] = reject(Pending, "TypeError")]
               /\ UNCHANGED <<memoryTable, sets, nextId>>
  /\ pc' = [pc EXCEPT ![p] = "done"]
  /\ UNCHANGED <<driver, flushVars, connectVars, file, flusher, lockHolder, data, documents, ret, faults,
                 acquired, seen, inner, branch, raised, file0>>

\* What find() without criteria resolves with: the documents get hands out.
found == IF driver = "memory" THEN memoryTable ELSE file

Next ==
  \/ MemoryAfterRead
  \/ \E p \in Procs : MemoryCall(p)
  \/ \E p \in Procs :
    \/ Call(p)
    \/ AfterLockFile(p)
    \/ InsertAfterReadFile(p)
    \/ InsertAfterWriteFile(p)
    \/ InsertManyAfterReadFile(p)
    \/ InsertManyAfterWriteFile(p)
    \/ UpdateAfterReadFile(p)
    \/ UpdateAfterWriteFile(p)
    \/ RemoveAfterReadFile(p)
    \/ RemoveAfterWriteFile(p)

Spec == Init /\ [][Next]_vars

(***************************************************************************)
(* Notions the properties share.                                           *)
(***************************************************************************)
Settled(p) == promise[p].state \in {"resolved", "rejected"}
AllDone == \A p \in Procs : pc[p] = "done"

\* Collection.prototype.count without criteria: documents.length.
count(docs) == Len(docs)

\* The documents with their _id left out.
blank(docs) == [i \in 1..Len(docs) |-> [docs[i] EXCEPT !["_id"] = Undefined]]

\* The effect of one call that runs alone on a healthy Disk backend.
alone(docs, c) ==
  LET st == matchLoop(loopStart(docs), c.criteria, c.updateCriteria, c.options.multi, 1)
      br == branchOf(st, c)
  IN CASE c.op = "insert" -> pushData(docs, c.data)
       [] c.op = "insertMany" -> pushMany(docs, c.data.items, 0)
       [] c.op = "remove" -> filterDocuments(docs, c.criteria)
       [] c.op = "update" /\ br = "primary" -> st.documents
       [] c.op = "update" /\ br = "fallback" -> fallbackMap(docs, c.updateCriteria).documents
       [] c.op = "update" /\ br = "upsert" ->
            Append(docs, asDocument(c.updateCriteria, Len(c.updateCriteria)))
       [] OTHER -> docs

\* The calls applied one at a time in the order given.
RECURSIVE serial(_, _, _)
serial(docs, order, k) ==
  IF k > Len(order) THEN docs
  ELSE serial(alone(docs, call[order[k]]), order, k + 1)

Orders == { o \in [1..NumProcs -> Procs] : \A p \in Procs : \E k \in 1..NumProcs : o[k] = p }

(***************************************************************************)
(* C1: once a mutating operation that acquired the lock has run its last   *)
(* callback and its promise is settled, it no longer holds the lock,       *)
(* whatever the outcome of its steps was.                                  *)
(***************************************************************************)
C1_LockReleased ==
  \A p \in Procs : (pc[p] = "done" /\ acquired[p] /\ Settled(p)) => p \notin lockHolder

(***************************************************************************)
(* C2: when all of a set of concurrently issued calls have settled on a    *)
(* healthy Disk backend, the stored documents (identifiers aside) are what *)
(* the same calls give when run one at a time in some order.               *)
(***************************************************************************)
C2_Serializable ==
  (driver = "disk" /\ faults = 0 /\ AllDone /\ \A p \in Procs : Settled(p))
    => \E o \in Orders : blank(file) = blank(serial(file0, o, 1))

(***************************************************************************)
(* C3: concurrent inserts of one document each, with the lock granted and  *)
(* no backend failure: the lock is never left held by a finished insert,   *)
(* and when all have finished each one resolved, each inserted document is *)
(* stored exactly once and count() is the previous count plus the number   *)
(* of calls.                                                               *)
(***************************************************************************)
OnlyInserts ==
  /\ driver = "disk" /\ faults = 0
  /\ \A p \in Procs : call[p].op \in {"none", "insert"} /\ ~call[p].data.isArray

C3_ConcurrentInserts ==
  OnlyInserts =>
    /\ \A p \in lockHolder : pc[p] \in {"read", "write"}
    /\ AllDone =>
         /\ \A p \in Procs : promise[p].state = "resolved"
         /\ count(file) = count(file0) + NumProcs
         /\ \A p \in Procs :
              Cardinality({i \in 1..Len(file) : file[i] = stored(data[p])}) = 1

\* Two inserts ran concurrently: the one called later wrote first.
C3_Witness ==
  /\ OnlyInserts /\ AllDone
  /\ count(file0) > 0
  /\ \E i, j \in 1..Len(file) :
       i < j /\ file[i] = stored(data[2]) /\ file[j] = stored(data[1])

(***************************************************************************)
(* C4: as long as only insert calls were made and no backend call failed, *)
(* every stored document has an _id and no two stored documents share     *)
(* one.                                                                    *)
(***************************************************************************)
C4_IdPresentUnique ==
  (driver = "disk" /\ faults = 0 /\ \A p \in Procs : call[p].op \in {"none", "insert"})
    => /\ \A i \in 1..Len(file) : file[i]["_id"] # Undefined
       /\ \A i, j \in 1..Len(file) : file[i]["_id"] = file[j]["_id"] => i = j

(***************************************************************************)
(* C5: the write of an update leaves the _id of every document as it was.  *)
(***************************************************************************)
C5_IdKept ==
  [][\A p \in Procs :
       (fn[p] = "update" /\ pc[p] = "write" /\ pc'[p] = "done" /\ file = seen[p])
         => /\ Len(file') = Len(file)
            /\ \A i \in 1..Len(file) : file'[i]["_id"] = file[i]["_id"]]_vars

(***************************************************************************)
(* C6: the step in which update's compute step rejects for a $inc on a     *)
(* non-number leaves the promise rejected and the documents a following    *)
(* find gets as they were, on either backend; the operation has called set *)
(* neither before nor in that step, and runs no further callback.          *)
(***************************************************************************)
C6_MismatchPersistsNothing ==
  [][\A p \in Procs :
       (raised[p] = "none" /\ raised'[p] = "TypeMismatch")
         => /\ promise'[p].state = "rejected"
            /\ found' = found
            /\ sets'[p] = 0
            /\ pc'[p] = "done"]_vars

\* update's own copy had been changed (an earlier property of the spec or an
\* earlier matching document) when the $inc was rejected.
C6_Witness ==
  \E p \in Procs :
    /\ raised[p] = "TypeMismatch" /\ promise[p].error = "TypeMismatch"
    /\ found = seen[p]
    /\ matchLoop(loopStart(seen[p]), call[p].criteria, call[p].updateCriteria,
                 call[p].options.multi, 1).documents # seen[p]

(***************************************************************************)
(* C7: an update whose specification holds an operator object without      *)
(* $inc, run to its end on a healthy Disk backend, has rejected with the   *)
(* unsupported-operator error and has not called set.                      *)
(***************************************************************************)
HasOtherOperator(u) == \E j \in 1..Len(u) : u[j][2] = OtherOp

C7_UnsupportedRejected ==
  \A p \in Procs :
    (driver = "disk" /\ faults = 0 /\ call[p].op = "update" /\ pc[p] = "done"
       /\ HasOtherOperator(call[p].updateCriteria))
      => promise[p].error = "UnsupportedOperator" /\ sets[p] = 0

(***************************************************************************)
(* C8: the write of a resolved update with the spec {f: {$inc: k}} leaves  *)
(* the backend with the documents the update read, where f of every        *)
(* matched document (of the first one when multi is false) is the number   *)
(* it was plus k, and every other document is as it was.                   *)
(***************************************************************************)
IsIncSpec(u) == Len(u) = 1 /\ u[1][2].t = "incNum"

\* Document i of docs is one the update changes.
Matched(docs, c, i) ==
  /\ matchCriteria(docs[i], c.criteria)
  /\ c.options.multi \/ \A h \in 1..(i - 1) : ~matchCriteria(docs[h], c.criteria)

C8_IncrementOnce ==
  [][\A p \in Procs :
       (fn[p] = "update" /\ pc[p] = "write" /\ promise'[p].state = "resolved"
          /\ IsIncSpec(call[p].updateCriteria))
         => LET f == call[p].updateCriteria[1][1]
                k == call[p].updateCriteria[1][2].n
            IN /\ Len(file') = Len(seen[p])
               /\ \A i \in 1..Len(seen[p]) :
                    file'[i] = IF Matched(seen[p], call[p], i)
                               THEN [seen[p][i] EXCEPT ![f] = Num(seen[p][i][f].n + k)]
                               ELSE seen[p][i]]_vars

C8_Witness ==
  \E p \in Procs :
    /\ pc[p] = "done" /\ promise[p].state = "resolved"
    /\ IsIncSpec(call[p].updateCriteria)
    /\ promise[p].ret.nModified > 0
    /\ file # seen[p]

(***************************************************************************)
(* C9: an update whose specification maps fields to plain values only      *)
(* (scalars, sequences, null), run to its end on a healthy Disk backend,   *)
(* has resolved.                                                           *)
(***************************************************************************)
IsPlainSpec(u) ==
  /\ Len(u) > 0
  /\ \A j \in 1..Len(u) : u[j][2].t \in {"number", "string", "null", "array"}

C9_PlainValueSucceeds ==
  \A p \in Procs :
    (driver = "disk" /\ faults = 0 /\ call[p].op = "update" /\ pc[p] = "done"
       /\ IsPlainSpec(call[p].updateCriteria))
      => promise[p].state = "resolved"

(***************************************************************************)
(* C10: an update with upsert that found the collection empty, run to its  *)
(* end on a healthy Disk backend, has resolved with an upserted count of 1 *)
(* after one set that stored the one new document.                         *)
(***************************************************************************)
C10_UpsertOnEmpty ==
  \A p \in Procs :
    (driver = "disk" /\ faults = 0 /\ call[p].op = "update" /\ call[p].options.upsert
       /\ pc[p] = "done" /\ seen[p] = <<>> /\ raised[p] = "none")
      => /\ promise[p].state = "resolved"
         /\ promise[p].ret.nUpserted = 1
         /\ sets[p] = 1 /\ Len(documents[p]) > 0

(***************************************************************************)
(* C11: an update without upsert that ran to its end on a healthy Disk     *)
(* backend and matched nothing has resolved with all counts 0, has never   *)
(* called set, and does not hold the lock.                                 *)
(***************************************************************************)
C11_NoMatchNoWrite ==
  \A p \in Procs :
    (driver = "disk" /\ faults = 0 /\ call[p].op = "update" /\ ~call[p].options.upsert
       /\ pc[p] = "done" /\ raised[p] = "none"
       /\ \A i \in 1..Len(seen[p]) : ~matchCriteria(seen[p][i], call[p].criteria))
      => /\ promise[p].state = "resolved"
         /\ promise[p].ret = ZeroRet
         /\ sets[p] = 0
         /\ p \notin lockHolder

(***************************************************************************)
(* C12: remove({}) run to its end on a healthy Disk backend has resolved;  *)
(* right after its write the collection holds no document.                 *)
(***************************************************************************)
C12_RemoveAll ==
  \A p \in Procs :
    (driver = "disk" /\ faults = 0 /\ call[p].op = "remove"
       /\ Len(call[p].criteria) = 0 /\ pc[p] = "done")
      => promise[p].state = "resolved"

(***************************************************************************)
(* C14: a remove called without criteria is rejected for the missing       *)
(* argument and touches the backend no further: it is never granted the    *)
(* lock and never calls get or set.                                        *)
(***************************************************************************)
C14_InvalidArgumentNoIO ==
  \A p \in Procs :
    (driver = "disk" /\ call[p].op = "remove" /\ Len(call[p].criteria) = 0)
      => /\ promise[p].error = "InvalidArgument"
         /\ ~acquired[p] /\ sets[p] = 0
         /\ pc[p] \notin {"read", "write"}

(***************************************************************************)
(* C15: an operation whose lock call reported an error is rejected with    *)
(* that error and calls neither get nor set afterwards.                    *)
(***************************************************************************)
C15_LockErrorStops ==
  \A p \in Procs :
    (driver = "disk" /\ promise[p].error = "LockError")
      => sets[p] = 0 /\ pc[p] \notin {"read", "write"}

Find(c, m) ==
  [op |-> "find", criteria |-> c, updateCriteria |-> <<>>,
   options |-> [multi |-> m, upsert |-> FALSE, retObj |-> FALSE], data |-> NoData]
FindOne(c) ==
  [op |-> "findOne", criteria |-> c, updateCriteria |-> <<>>,
   options |-> [multi |-> FALSE, upsert |-> FALSE, retObj |-> FALSE], data |-> NoData]
Count(c) ==
  [op |-> "count", criteria |-> c, updateCriteria |-> <<>>,
   options |-> [multi |-> TRUE, upsert |-> FALSE, retObj |-> FALSE], data |-> NoData]
Distinct(field) ==
  [op |-> "distinct", criteria |-> <<>>, updateCriteria |-> <<>>,
   options |-> NoOptions, data |-> NoData, field |-> field]
\* findAndModify without options: { multi: true, retObj: true }
FindAndModify(c, u) ==
  [op |-> "findAndModify", criteria |-> c, updateCriteria |-> u,
   options |-> [multi |-> TRUE, upsert |-> FALSE, retObj |-> TRUE], data |-> NoData]
\* deleteOne: remove(criteria, { multi: false })
DeleteOne(c) ==
  [op |-> "deleteOne", criteria |-> c, updateCriteria |-> <<>>,
   options |-> [multi |-> FALSE, upsert |-> FALSE, retObj |-> FALSE], data |-> NoData]
\* updateOne / updateMany called with the options { new: true }
UpdateOne(c, u) ==
  [op |-> "updateOne", criteria |-> c, updateCriteria |-> u,
   options |-> [multi |-> FALSE, upsert |-> FALSE, retObj |-> FALSE, new |-> TRUE],
   data |-> NoData]
UpdateMany(c, u) ==
  [op |-> "updateMany", criteria |-> c, updateCriteria |-> u,
   options |-> [multi |-> TRUE, upsert |-> FALSE, retObj |-> FALSE, new |-> TRUE],
   data |-> NoData]

Queries ==
  << Insert(OneDocument),
     Find(Empty, TRUE),
     Find(AIsOne, TRUE),
     Find(AIsOne, FALSE),
     FindOne(AIsOne),
     Count(Empty),
     Count(AIsOne),
     Distinct("b"),
     FindAndModify(AIsOne, << <<"b", Num(7)>> >>),
     DeleteOne(AIsOne),
     UpdateOne(AIsOne, << <<"b", Num(7)>> >>),
     UpdateMany(AIsOne, << <<"a", Num(2)>> >>) >>

\* As CallsOf, for the calls of Queries.
QueriesOf(prev) ==
  { Queries[k] : k \in { h \in 1..Len(Queries) :
                           prev = NoCall \/ h >= (CHOOSE j \in 1..Len(Queries) : Queries[j] = prev) } }

\* The collection files the queries are run on.
QueryFiles ==
  { <<>>,
    << Doc(Uuid(1), Num(1), Num(0)), Doc(Uuid(2), Num(2), Null), Doc(Uuid(3), Num(1), Num(5)) >> }

\* The function whose callbacks run for a call: findOne and count with
\* criteria call find, findAndModify calls update, deleteOne calls remove.
delegate(c) ==
  CASE c.op = "findOne" -> "find"
    [] c.op = "count" /\ Len(c.criteria) > 0 -> "find"
    [] c.op \in {"findAndModify", "updateOne", "updateMany"} -> "update"
    [] c.op = "deleteOne" -> "remove"
    [] OTHER -> c.op

\* The promise the caller holds, given the promise of the function the call
\* delegates to: the then and catch handlers of the wrapper.
settle(c, pr) ==
  CASE c.op = "findAndModify" /\ pr.state = "resolved" ->
         resolve(Pending, retObjOr(c, Object(c.updateCriteria), pr.ret))
    [] c.op = "count" /\ Len(c.criteria) > 0 /\ pr.state = "resolved" ->
         resolve(Pending, Num(Len(pr.ret.items)))
    [] OTHER -> pr

InitQueries ==
  /\ BeforeFlush
  /\ BeforeConnect
  /\ driver = "disk"
  /\ file \in QueryFiles
  /\ memoryTable = <<>>
  /\ flusher = "none"
  /\ file0 = file
  /\ lockHolder = {}
  /\ nextId = Len(file) + 1
  /\ pc = [p \in Procs |-> "idle"]
  /\ call = [p \in Procs |-> NoCall]
  /\ fn = [p \in Procs |-> "none"]
  /\ data = [p \in Procs |-> NoData]
  /\ documents = [p \in Procs |-> <<>>]
  /\ ret = [p \in Procs |-> ZeroRet]
  /\ promise = [p \in Procs |-> NoPromise]
  /\ faults = 0
  /\ acquired = [p \in Procs |-> FALSE]
  /\ sets = [p \in Procs |-> 0]
  /\ seen = [p \in Procs |-> <<>>]
  /\ inner = [p \in Procs |-> NoPromise]
  /\ branch = [p \in Procs |-> "none"]
  /\ raised = [p \in Procs |-> "none"]

\* A caller calls one of Queries: the promise executor up to the call of
\* get (the read-only operations) or of lock.
Ask(p) ==
  /\ pc[p] = "idle"
  /\ \A q \in 1..(p - 1) : pc[q] # "idle"
  /\ \E c \in QueriesOf(IF p = 1 THEN NoCall ELSE call[p - 1]) :
       /\ call' = [call EXCEPT ![p] = c]
       /\ fn' = [fn EXCEPT ![p] = delegate(c)]
       /\ data' = [data EXCEPT ![p] =
                     IF c.op = "insert" THEN [c.data EXCEPT !.id = Uuid(nextId)] ELSE c.data]
       /\ nextId' = IF c.op = "insert" THEN nextId + 1 ELSE nextId
       /\ inner' = [inner EXCEPT ![p] = IF c.op = "insert" THEN Pending ELSE NoPromise]
       /\ pc' = [pc EXCEPT ![p] =
                   IF delegate(c) \in {"find", "count", "distinct"} THEN "get" ELSE "lock"]
  /\ promise' = [promise EXCEPT ![p] = Pending]
  /\ UNCHANGED <<file, lockHolder, documents, ret, faults, acquired, sets, seen,
                 branch, file0, driver, flushVars, connectVars, memoryTable, flusher, raised>>

\* A single document a promise is resolved with.
Document(document) == [kind |-> "document", items |-> <<document>>]
\* The values distinct resolves with.
Values(items) == [kind |-> "values", items |-> items]

\* find's iterator, applied to one document.  acc is what the iteration has
\* done so far: the documents pushed, and the document the final callback
\* was called with (only its first call counts).
filterBad(acc, document, criteria, multi) ==
  IF matchCriteria(document, criteria)
  THEN [acc EXCEPT !.filteredDocuments = Append(@, document)]
  ELSE acc
filter(acc, document, criteria, multi) ==
  IF matchCriteria(document, criteria)
  THEN IF ~multi
       THEN IF acc.called THEN acc
            ELSE [acc EXCEPT !.called = TRUE, !.result = document]
       ELSE [acc EXCEPT !.filteredDocuments = Append(@, document)]
  ELSE acc

\* async.each(documents, filter, afterFiltering) from document i on.
RECURSIVE each(_, _, _, _, _)
each(docs, criteria, multi, i, acc) ==
  IF i > Len(docs) THEN acc
  ELSE each(docs, criteria, multi, i + 1, filter(acc, docs[i], criteria, multi))

\* What find's afterReadFile resolves with.
afterFiltering(docs, criteria, multi) ==
  IF Len(criteria) = 0 THEN Documents(docs)
  ELSE LET acc == each(docs, criteria, multi, 1,
                       [filteredDocuments |-> <<>>, called |-> FALSE,
                        result |-> UndefinedDocument])
       IN IF acc.called THEN Document(acc.result) ELSE Documents(acc.filteredDocuments)

\* _.uniq: the first occurrence of every value, in order.
RECURSIVE uniq(_, _)
uniq(values, i) ==
  IF i = 0 THEN <<>>
  ELSE LET before == uniq(values, i - 1)
       IN IF \E h \in 1..(i - 1) : values[h] = values[i] THEN before
          ELSE Append(before, values[i])

\* A value JavaScript takes for false: _.compact drops these.
Falsy(v) == v.t \in {"null", "undefined"} \/ v = Num(0)
compact(values) == SelectSeq(values, LAMBDA v : ~Falsy(v))

\* _.chain(documents).map(document[field]).uniq().compact().value()
distinctValues(docs, field) ==
  LET mapped == [i \in 1..Len(docs) |-> docs[i][field]]
  IN compact(uniq(mapped, Len(mapped)))

FindAfterReadFileBad(p) ==
  /\ pc[p] = "get" /\ fn[p] = "find"
  /\ seen' = [seen EXCEPT ![p] = diskGet(file)]
  /\ file' = diskSet(file, <<>>)
  /\ promise' = [promise EXCEPT ![p] =
                   resolve(@, afterFiltering(diskGet(file), call[p].criteria,
                                             call[p].options.multi))]
  /\ pc' = [pc EXCEPT ![p] = "done"]
  /\ UNCHANGED <<faults, lockHolder, nextId, call, fn, data, documents, ret, acquired,
                 sets, inner, branch, file0, driver, flushVars, connectVars, memoryTable, flusher, raised>>

FindAfterReadFile(p) ==
  /\ pc[p] = "get" /\ fn[p] = "find"
  /\ \/ /\ faults < MaxFaults
        /\ faults' = faults + 1
        /\ promise' = [promise EXCEPT ![p] = reject(@, "IOError")]
        /\ UNCHANGED seen
     \/ /\ seen' = [seen EXCEPT ![p] = diskGet(file)]
        /\ promise' = [promise EXCEPT ![p] =
                         resolve(@, afterFiltering(diskGet(file), call[p].criteria,
                                                   call[p].options.multi))]
        /\ UNCHANGED faults
  /\ pc' = [pc EXCEPT ![p] = "done"]
  /\ UNCHANGED <<file, lockHolder, nextId, call, fn, data, documents, ret, acquired,
                 sets, inner, branch, file0, driver, flushVars, connectVars, memoryTable, flusher, raised>>

\* count without criteria: resolve(documents.length)
CountAfterReadFile(p) ==
  /\ pc[p] = "get" /\ fn[p] = "count"
  /\ \/ /\ faults < MaxFaults
        /\ faults' = faults + 1
        /\ promise' = [promise EXCEPT ![p] = reject(@, "IOError")]
        /\ UNCHANGED seen
     \/ /\ seen' = [seen EXCEPT ![p] = diskGet(file)]
        /\ promise' = [promise EXCEPT ![p] = resolve(@, Num(count(diskGet(file))))]
        /\ UNCHANGED faults
  /\ pc' = [pc EXCEPT ![p] = "done"]
  /\ UNCHANGED <<file, lockHolder, nextId, call, fn, data, documents, ret, acquired,
                 sets, inner, branch, file0, driver, flushVars, connectVars, memoryTable, flusher, raised>>

\* distinct: on an error it rejects and goes on; the chain over the missing
\* documents gives [], and the resolve that follows has no effect.
DistinctAfterReadFile(p) ==
  /\ pc[p] = "get" /\ fn[p] = "distinct"
  /\ \/ /\ faults < MaxFaults
        /\ faults' = faults + 1
        /\ promise' = [promise EXCEPT ![p] = resolve(reject(@, "IOError"), Values(<<>>))]
        /\ UNCHANGED seen
     \/ /\ seen' = [seen EXCEPT ![p] = diskGet(file)]
        /\ promise' = [promise EXCEPT ![p] =
                         resolve(@, Values(distinctValues(diskGet(file), call[p].field)))]
        /\ UNCHANGED faults
  /\ pc' = [pc EXCEPT ![p] = "done"]
  /\ UNCHANGED <<file, lockHolder, nextId, call, fn, data, documents, ret, acquired,
                 sets, inner, branch, file0, driver, flushVars, connectVars, memoryTable, flusher, raised>>

NextQueries ==
  \E p \in Procs :
    \/ Ask(p)
    \/ AfterLockFile(p)
    \/ InsertAfterReadFile(p)
    \/ InsertAfterWriteFile(p)
    \/ UpdateAfterReadFile(p)
    \/ UpdateAfterWriteFile(p)
    \/ RemoveAfterReadFile(p)
    \/ RemoveAfterWriteFile(p)
    \/ FindAfterReadFile(p)
    \/ CountAfterReadFile(p)
    \/ DistinctAfterReadFile(p)

SpecQueries == InitQueries /\ [][NextQueries]_vars

(***************************************************************************)
(* C13: the documents deleteOne hands to set are the documents it read     *)
(* without the first one that matches the criteria: every other document,  *)
(* later matching ones included, is kept in its place.                     *)
(***************************************************************************)
C13_DeleteOneFirstOnly ==
  [][\A p \in Procs :
       (call[p].op = "deleteOne" /\ pc[p] = "read" /\ pc'[p] = "write")
         => LET crit == call[p].criteria
                hits == { i \in 1..Len(file) : matchCriteria(file[i], crit) }
                k == CHOOSE i \in hits : \A h \in hits : i <= h
            IN documents'[p] =
                 IF hits = {} THEN file
                 ELSE [i \in 1..(Len(file) - 1) |-> IF i < k THEN file[i] ELSE file[i + 1]]]_vars

(***************************************************************************)
(* C17: no step of find, findOne, count or distinct changes the stored     *)
(* documents or the holder of the lock, and none of them is ever granted   *)
(* the lock or calls set.                                                  *)
(***************************************************************************)
ReadOnly(c) == c.op \in {"find", "findOne", "count", "distinct"}

C17_ReadOnlyFrame ==
  [][\A p \in Procs :
       (ReadOnly(call'[p]) /\ pc'[p] # pc[p])
         => /\ file' = file
            /\ lockHolder' = lockHolder
            /\ sets'[p] = 0 /\ ~acquired'[p]]_vars

\* A read-only operation has resolved while another operation is between
\* its read and its write, holding the lock.
C17_Witness ==
  \E p, q \in Procs :
    /\ ReadOnly(call[p]) /\ pc[p] = "done" /\ promise[p].state = "resolved"
    /\ q # p /\ lockHolder = {q} /\ pc[q] = "write"

(***************************************************************************)
(* C18: a resolved find (or findOne) has resolved, of the documents get    *)
(* handed it, with all of them in stored order when the criteria is empty, *)
(* with the matching ones in stored order when multi is true, and with the *)
(* first matching one when multi is false and some document matches.       *)
(***************************************************************************)
C18_FindResults ==
  \A p \in Procs :
    (call[p].op \in {"find", "findOne"} /\ pc[p] = "done" /\ promise[p].state = "resolved")
      => LET c == call[p]
             matches == SelectSeq(seen[p], LAMBDA d : matchCriteria(d, c.criteria))
         IN /\ Len(c.criteria) = 0 => promise[p].ret = Documents(seen[p])
            /\ (Len(c.criteria) > 0 /\ c.options.multi)
                 => promise[p].ret = Documents(matches)
            /\ (Len(c.criteria) > 0 /\ ~c.options.multi /\ Len(matches) > 0)
                 => promise[p].ret = Document(matches[1])

\* find with multi false resolved with the first of several matches.
C18_Witness ==
  \E p \in Procs :
    /\ call[p].op \in {"find", "findOne"} /\ ~call[p].options.multi
    /\ pc[p] = "done" /\ promise[p].state = "resolved"
    /\ Len(SelectSeq(seen[p], LAMBDA d : matchCriteria(d, call[p].criteria))) > 1
    /\ promise[p].ret = Document(seen[p][1])

(***************************************************************************)
(* C19: a resolved distinct(field) has resolved with the values the field  *)
(* has in the documents get handed it, null and absent left out, each of   *)
(* them exactly once.                                                      *)
(***************************************************************************)
C19_DistinctValues ==
  \A p \in Procs :
    (call[p].op = "distinct" /\ pc[p] = "done" /\ promise[p].state = "resolved")
      => LET values == promise[p].ret.items
         IN /\ { values[k] : k \in 1..Len(values) }
                 = { seen[p][i][call[p].field] : i \in 1..Len(seen[p]) } \ {Null, Undefined}
            /\ \A k, h \in 1..Len(values) : values[k] = values[h] => k = h

(***************************************************************************)
(* C20: a findAndModify whose update has changed documents and resolved    *)
(* resolves with those documents as the update left them when retObj is    *)
(* set, and with update's result otherwise.                                *)
(***************************************************************************)
C20_FindAndModifyResult ==
  \A p \in Procs :
    (call[p].op = "findAndModify" /\ pc[p] = "done" /\ branch[p] = "primary"
       /\ promise[p].state = "resolved")
      => settle(call[p], promise[p]).ret
           = retObjOr(call[p], Documents(matchedDocuments(p)), promise[p].ret)

(***************************************************************************)
(* C21: updateOne / updateMany called with new and without retObj: when    *)
(* update has modified documents, the find that follows resolves the       *)
(* caller's promise with exactly the documents this update modified, as    *)
(* the update left them.                                                   *)
(***************************************************************************)
C21_ReturnNew ==
  [][\A p \in Procs :
       (call[p].op \in {"updateOne", "updateMany"} /\ pc[p] = "get" /\ pc'[p] = "done"
          /\ promise'[p].state = "resolved")
         => promise'[p].ret.items = matchedDocuments(p)]_vars

(***************************************************************************)
(* The Memory backend by itself: the constructor's read, set and get as    *)
(* their callers call them, and the ticks of the flush interval.  A tick   *)
(* is the chain flushToDisk, afterLock, afterWriteFile; a tick may fire    *)
(* while the one before it still waits for a callback.                     *)
(***************************************************************************)
\* The arrays set is called with; every call passes an array of its own.
Contents ==
  { <<>>, << Doc(Uuid(7), Num(3), Null) >> }

\* Memory.prototype.get: callback(undefined, this.memoryTable)
memoryGet(table) == table

\* util.fileSystem.write: the file holds the content it was called with.
fileSystemWrite(stored_, content) == content

InitMemory ==
  /\ BeforeFlush
  /\ BeforeConnect
  /\ driver = "memory"
  /\ file \in Files
  /\ memoryTable = <<>>
  /\ flusher = "read"
  /\ file0 = file
  /\ lockHolder = {}
  /\ nextId = Len(file) + 1
  /\ pc = [p \in Procs |-> "idle"]
  /\ call = [p \in Procs |-> NoCall]
  /\ fn = [p \in Procs |-> "none"]
  /\ data = [p \in Procs |-> NoData]
  /\ documents = [p \in Procs |-> <<>>]
  /\ ret = [p \in Procs |-> ZeroRet]
  /\ promise = [p \in Procs |-> NoPromise]
  /\ faults = 0
  /\ acquired = [p \in Procs |-> FALSE]
  /\ sets = [p \in Procs |-> 0]
  /\ seen = [p \in Procs |-> <<>>]
  /\ inner = [p \in Procs |-> NoPromise]
  /\ branch = [p \in Procs |-> "none"]
  /\ raised = [p \in Procs |-> "none"]

collectionVars ==
  <<driver, nextId, pc, call, fn, data, documents, ret, promise, acquired, sets, seen,
    inner, branch, raised, file0>>

setBad(content) ==
  /\ alive /\ Len(given) < MaxSets
  /\ memoryTable' = memorySet(memoryTable, content)
  /\ file' = fileSystemWrite(file, content)
  /\ given' = Append(given, content)
  /\ UNCHANGED <<collectionVars, connectVars, flusher, lockHolder, faults, alive, tick,
                 buffer, got>>

\* Memory.prototype.set
set(content) ==
  /\ alive /\ Len(given) < MaxSets
  /\ memoryTable' = memorySet(memoryTable, content)
  /\ given' = Append(given, content)
  /\ UNCHANGED <<collectionVars, connectVars, file, flusher, lockHolder, faults, alive,
                 tick, buffer, got>>

\* Memory.prototype.get
get ==
  /\ alive
  /\ got' = [after |-> Len(given), documents |-> memoryGet(memoryTable)]
  /\ UNCHANGED <<collectionVars, connectVars, file, memoryTable, flusher, lockHolder,
                 faults, alive, tick, buffer, given>>

\* The interval fires: flushToDisk calls lock.
flushToDisk(t) ==
  /\ alive /\ flusher = "interval"
  /\ tick[t] = "idle"
  /\ \A u \in 1..(t - 1) : tick[u] # "idle"
  /\ tick' = [tick EXCEPT ![t] = "lock"]
  /\ UNCHANGED <<collectionVars, connectVars, file, memoryTable, flusher, lockHolder,
                 faults, alive, buffer, given, got>>

afterLockBad(t) ==
  /\ alive /\ tick[t] = "lock"
  /\ granted(lockHolder)
  /\ lockHolder' = {t}
  /\ buffer' = [buffer EXCEPT ![t] = memoryTable]
  /\ memoryTable' = <<>>
  /\ tick' = [tick EXCEPT ![t] = "write"]
  /\ UNCHANGED <<faults, alive>>
  /\ UNCHANGED <<collectionVars, connectVars, file, flusher, given, got>>

\* afterLock: on an error it throws; otherwise it calls write with the Set.
afterLock(t) ==
  /\ alive /\ tick[t] = "lock"
  /\ \/ /\ granted(lockHolder)
        /\ lockHolder' = {t}
        /\ buffer' = [buffer EXCEPT ![t] = memoryTable]
        /\ tick' = [tick EXCEPT ![t] = "write"]
        /\ UNCHANGED <<faults, alive>>
     \/ /\ faults < MaxFaults
        /\ faults' = faults + 1
        /\ tick' = [tick EXCEPT ![t] = "threw"]
        /\ Uncaught(alive')
        /\ UNCHANGED <<lockHolder, buffer>>
  /\ UNCHANGED <<collectionVars, connectVars, file, memoryTable, flusher, given, got>>

\* afterWriteFile of a tick: unlock, and on an error throw.
afterWriteFile(t) ==
  /\ alive /\ tick[t] = "write"
  /\ lockHolder' = unlock(lockHolder, t)
  /\ \/ /\ file' = fileSystemWrite(file, buffer[t])
        /\ tick' = [tick EXCEPT ![t] = "done"]
        /\ UNCHANGED <<faults, alive>>
     \/ /\ faults < MaxFaults
        /\ faults' = faults + 1
        /\ tick' = [tick EXCEPT ![t] = "threw"]
        /\ Uncaught(alive')
        /\ UNCHANGED file
  /\ UNCHANGED <<collectionVars, connectVars, memoryTable, flusher, buffer, given, got>>

NextMemory ==
  \/ MemoryAfterRead
  \/ \E content \in Contents : set(content)
  \/ get
  \/ \E t \in Ticks :
       \/ flushToDisk(t)
       \/ afterLock(t)
       \/ afterWriteFile(t)

SpecMemory == InitMemory /\ [][NextMemory]_vars

(***************************************************************************)
(* C22: what get hands its callback after a successful set(X) is exactly   *)
(* the sequence X, with nothing of what the backend held before.           *)
(***************************************************************************)
C22_SetGetRoundTrip ==
  got.after > 0 => got.documents = given[got.after]

(***************************************************************************)
(* C23: a tick of the flush interval has fired only if the initial load    *)
(* has put the content of the file into memory; when the initial load has  *)
(* failed no tick ever fires and the file stays as it was.                 *)
(***************************************************************************)
C23_NoTickBeforeLoad ==
  /\ (\E t \in Ticks : tick[t] # "idle")
       => /\ flusher = "interval"
          /\ \E k \in 1..Len(memoryTable) : memoryTable[k] = file0
  /\ flusher = "failed" => (\A t \in Ticks : tick[t] = "idle") /\ file = file0

\* The initial load failed, the process went on and set was called as often
\* as the bound allows.
C23_Witness ==
  flusher = "failed" /\ alive /\ Len(given) = MaxSets /\ got.after = MaxSets

(***************************************************************************)
(* C24: the step in which the write of a tick fails releases the lock the  *)
(* tick took and leaves the scheduler running: the process is alive and    *)
(* the interval set, so the next tick fires.                               *)
(***************************************************************************)
C24_WriteFailureKeepsRunning ==
  [][\A t \in Ticks :
       (tick[t] = "write" /\ tick'[t] = "threw")
         => t \notin lockHolder' /\ alive' /\ flusher' = "interval"]_vars

(***************************************************************************)
(* C25: no step of a tick changes what get returns; the content a tick     *)
(* hands to write is the in-memory content of that moment, and a tick that *)
(* succeeds leaves the file holding exactly that content.                  *)
(***************************************************************************)
C25_TickKeepsMemory ==
  [][\A t \in Ticks :
       tick'[t] # tick[t]
         => /\ memoryGet(memoryTable') = memoryGet(memoryTable)
            /\ tick'[t] = "write" => buffer'[t] = memoryGet(memoryTable)
            /\ tick'[t] = "done" => file' = buffer[t]]_vars

\* A tick has written what set had put into memory before it.
C25_Witness ==
  /\ tick[1] = "done" /\ Len(given) > 0
  /\ file = memoryTable /\ file # file0

(***************************************************************************)
(* C26: set does not write the file; the file changes in no step but the   *)
(* successful afterWriteFile of a tick.                                    *)
(***************************************************************************)
C26_SetWritesNoFile ==
  [][/\ given' # given => file' = file
     /\ file' # file => \E t \in Ticks : tick[t] = "write" /\ tick'[t] = "done"]_vars

\* set was called with a document while a tick waits for its write: memory
\* holds the document, the file does not.
C26_Witness ==
  /\ \E t \in Ticks : tick[t] = "write" /\ buffer[t] # memoryTable
  /\ \E k \in 1..Len(given) : given[k] # <<>>
  /\ file = file0

(***************************************************************************)
(* connect (src/index.js): validatePath, then createCollections, which     *)
(* runs create for every collection (async.each) and finalize once, on the *)
(* first error or when every create has called next.                       *)
(***************************************************************************)
CollectionNames == 1..MaxNames

\* The collections argument: something that is not an array (a string,
\* null, an options object), or an array of names.
NotAnArray == [isArray |-> FALSE, names |-> <<>>]
ArrayOf(n) == [isArray |-> TRUE, names |-> [k \in 1..n |-> k]]

\* callback(err) and callback(null, self)
CallbackError(e) == [err |-> e, db |-> FALSE]
CallbackDb == [err |-> "none", db |-> TRUE]

\* connect is called: pathExists(self._path) is pending.
InitConnect ==
  /\ BeforeFlush
  /\ rootExists \in BOOLEAN
  /\ collections \in {NotAnArray} \cup { ArrayOf(n) : n \in 0..MaxNames }
  /\ exists \in (IF rootExists THEN SUBSET CollectionNames ELSE {{}})
  /\ created = {}
  /\ creating = <<>>
  /\ called = <<>>
  /\ connecting = "validatePath"
  /\ driver = "disk"
  /\ file = <<>>
  /\ memoryTable = <<>>
  /\ flusher = "none"
  /\ file0 = file
  /\ lockHolder = {}
  /\ nextId = 1
  /\ pc = [p \in Procs |-> "idle"]
  /\ call = [p \in Procs |-> NoCall]
  /\ fn = [p \in Procs |-> "none"]
  /\ data = [p \in Procs |-> NoData]
  /\ documents = [p \in Procs |-> <<>>]
  /\ ret = [p \in Procs |-> ZeroRet]
  /\ promise = [p \in Procs |-> NoPromise]
  /\ faults = 0
  /\ acquired = [p \in Procs |-> FALSE]
  /\ sets = [p \in Procs |-> 0]
  /\ seen = [p \in Procs |-> <<>>]
  /\ inner = [p \in Procs |-> NoPromise]
  /\ branch = [p \in Procs |-> "none"]
  /\ raised = [p \in Procs |-> "none"]

storeVars ==
  <<file, memoryTable, flusher, lockHolder, collectionVars, flushVars>>

\* validatePath's afterCheck, and createCollections when it calls next: the
\* Collection objects are made and pathExists is called for every file.
validatePath ==
  /\ connecting = "validatePath"
  /\ IF ~rootExists
     THEN /\ called' = Append(called, CallbackError("InvalidPath"))
          /\ connecting' = "done"
          /\ UNCHANGED <<created, creating>>
     ELSE IF ~collections.isArray
     THEN /\ called' = Append(called, CallbackError("InvalidCollectionName"))
          /\ connecting' = "done"
          /\ UNCHANGED <<created, creating>>
     ELSE /\ created' = { collections.names[k] : k \in 1..Len(collections.names) }
          /\ creating' = [k \in 1..Len(collections.names) |-> "check"]
          /\ IF Len(collections.names) = 0
             THEN called' = Append(called, CallbackDb) /\ connecting' = "done"
             ELSE connecting' = "each" /\ UNCHANGED called
  /\ UNCHANGED <<storeVars, faults, rootExists, collections, exists>>

\* next(err) of async.each, after creating has become c: nothing once
\* finalize has been called; finalize(err) on an error; finalize() when
\* every create has called next.
next(c, e) ==
  IF connecting # "each" THEN UNCHANGED <<called, connecting>>
  ELSE IF e # "none"
  THEN called' = Append(called, CallbackError(e)) /\ connecting' = "done"
  ELSE IF \A k \in 1..Len(c) : c[k] \in {"found", "written", "failed"}
  THEN called' = Append(called, CallbackDb) /\ connecting' = "done"
  ELSE UNCHANGED <<called, connecting>>

createBad(k) ==
  /\ k <= Len(creating) /\ creating[k] = "check"
  /\ creating' = [creating EXCEPT ![k] = "found"]
  /\ next(creating', "none")
  /\ UNCHANGED <<storeVars, faults, rootExists, collections, exists, created>>

\* create's afterCheck: the file exists, or writeFile is called.
create(k) ==
  /\ k <= Len(creating) /\ creating[k] = "check"
  /\ IF collections.names[k] \in exists
     THEN /\ creating' = [creating EXCEPT ![k] = "found"]
          /\ next(creating', "none")
     ELSE /\ creating' = [creating EXCEPT ![k] = "write"]
          /\ UNCHANGED <<called, connecting>>
  /\ UNCHANGED <<storeVars, faults, rootExists, collections, exists, created>>

\* create's afterWriteFile: next(err)
createAfterWriteFile(k) ==
  /\ k <= Len(creating) /\ creating[k] = "write"
  /\ \/ /\ exists' = exists \cup {collections.names[k]}
        /\ creating' = [creating EXCEPT ![k] = "written"]
        /\ next(creating', "none")
        /\ UNCHANGED faults
     \/ /\ faults < MaxFaults
        /\ faults' = faults + 1
        /\ creating' = [creating EXCEPT ![k] = "failed"]
        /\ next(creating', "IOError")
        /\ UNCHANGED exists
  /\ UNCHANGED <<storeVars, rootExists, collections, created>>

NextConnect ==
  \/ validatePath
  \/ \E k \in CollectionNames :
       \/ create(k)
       \/ createAfterWriteFile(k)

SpecConnect == InitConnect /\ [][NextConnect]_vars

Answered == Next /\ faults' = faults

SpecLive == Init /\ [][Next]_vars /\ WF_vars(Answered)

(***************************************************************************)
(* C28: a mutating operation that waits for the lock of a Disk-backed      *)
(* collection eventually has run its last callback with its promise        *)
(* settled, whatever the operations before it did.                         *)
(***************************************************************************)
C28_NoPermanentDeadlock ==
  \A p \in Procs :
    (driver = "disk" /\ pc[p] = "lock") ~> (pc[p] = "done" /\ Settled(p))

(***************************************************************************)
(* C29: the write of an update without upsert leaves as many documents     *)
(* stored as there were, every document that does not match the criteria   *)
(* as it was and in its place, and with multi false also every matching    *)
(* document after the first; with multi false the matched count is at most *)
(* 1.                                                                      *)
(***************************************************************************)
C29_UpdateFrame ==
  [][\A p \in Procs :
       (call[p].op = "update" /\ ~call[p].options.upsert /\ fn[p] = "update"
          /\ pc[p] = "write" /\ pc'[p] = "done")
         => /\ Len(file') = Len(file)
            /\ \A i \in 1..Len(file) :
                 ~Matched(file, call[p], i) => file'[i] = file[i]
            /\ ~call[p].options.multi => ret'[p].nMatched <= 1]_vars

====
